---- MODULE Spec2Model ----
(***************************************************************************)
(* A model of the zero-copy Standard MIDI File reader of src/src/read.rs   *)
(* and of the eager adapter of src/src/features/alloc.rs.                  *)
(*                                                                         *)
(* A Rust slice `&[u8]` is a view into the input buffer: it is modelled as *)
(* a pair of offsets [lo, hi) into the variable `input`.  A cursor         *)
(* `&mut &[u8]` is such a view that the read functions advance in place,   *)
(* so every read returns the state of the cursor (`rest`) next to its      *)
(* value, also when it fails.                                              *)
(***************************************************************************)
EXTENDS Integers, Sequences, FiniteSets, TLC

VARIABLES
    input,      \* the bytes of the buffer handed to the reader
    file,       \* how the buffer was put together (known to the claims only)
    call,       \* the entry point the client drives
    pc,         \* where the client is
    cursor,     \* the caller's cursor (a view into input)
    ret,        \* what the last call returned
    reader,     \* the SmfReader { header, data }
    iter,       \* the TrackChunkIter { data, tracks }
    chunk,      \* the TrackChunk { data } the client holds, and its number
    calls,      \* the calls of TrackChunkIter::next so far: state before, item
    evs,        \* the calls of next on the held TrackChunk so far
    firstErr    \* the first error any call returned

vars == <<input, file, call, pc, cursor, ret, reader, iter, chunk, calls, evs, firstErr>>

(***************************************************************************)
(* Bounds of the model                                                     *)
(***************************************************************************)
\* longest buffer handed to read_vlq / read_u7
MaxVlqLen == 5
\* bytes that may follow a header chunk
MaxTrailing == 1
\* data bytes that may follow the type byte of an event
MaxTail == 2
\* payload bytes that may follow a length prefix
MaxData == 5
\* track chunks in a file
MaxTracks == 2
\* calls of next on the track chunk iterator beyond the declared tracks + 2
MaxExtraCalls == 0

(***************************************************************************)
(* Views and results                                                       *)
(***************************************************************************)
Slice(lo, hi) == [lo |-> lo, hi |-> hi]

SliceLen(s) == s.hi - s.lo

IsEmpty(s) == SliceLen(s) = 0

\* the bytes a view shows
Bytes(s) == [i \in 1..SliceLen(s) |-> input[s.lo + i]]

\* b[i] of a view b (0-based, as in the source)
ByteAt(b, i) == input[b.lo + i + 1]

NoContext == ""

Ok(v, rest) == [ok |-> TRUE, kind |-> "Ok", context |-> NoContext, val |-> v, rest |-> rest]

Err(k, rest) == [ok |-> FALSE, kind |-> k, context |-> NoContext, val |-> <<>>, rest |-> rest]

\* result.map_err(context(c)): an ErrorKind becomes an Error carrying c;
\* a panic is not a value and unwinds through it
MapErrContext(r, c) ==
    IF r.ok \/ r.kind = "Panic" THEN r ELSE [r EXCEPT !.context = c]

\* result.map(f)
MapOk(r, v) == IF r.ok THEN [r EXCEPT !.val = v] ELSE r

\* `let x = expr?; rest`: an error (or a panic) of expr is returned at once
Try(r, K(_)) == IF r.ok THEN K(r) ELSE r

(***************************************************************************)
(* Bit operations on unsigned integers                                     *)
(***************************************************************************)
RECURSIVE BitAnd(_, _)
BitAnd(a, b) ==
    IF a = 0 \/ b = 0 THEN 0
    ELSE (a % 2) * (b % 2) + 2 * BitAnd(a \div 2, b \div 2)

RECURSIVE BitOr(_, _)
BitOr(a, b) ==
    IF a = 0 THEN b
    ELSE IF b = 0 THEN a
    ELSE (IF a % 2 = 1 \/ b % 2 = 1 THEN 1 ELSE 0) + 2 * BitOr(a \div 2, b \div 2)

RECURSIVE Pow2(_)
Pow2(n) == IF n = 0 THEN 1 ELSE 2 * Pow2(n - 1)

\* variant: the accumulator is shifted by a whole byte
ShlU32_by8(x, n) == (x % Pow2(30 - n)) * Pow2(n + 1)

\* x << n on a u32: the bits shifted out of the 32 are lost
ShlU32(x, n) == (x % Pow2(32 - n)) * Pow2(n)

(***************************************************************************)
(* Cursor primitives (read.rs 14-57)                                       *)
(***************************************************************************)
\* variant: the length is checked against the whole buffer, not the view
read_bytes_past(data, len) ==
    IF Len(input) - data.lo < len
    THEN Err("Fatal", data)
    ELSE Ok(Slice(data.lo, data.lo + len),
            Slice(data.lo + len, IF data.hi < data.lo + len THEN data.lo + len ELSE data.hi))

\* variant: a read of all the bytes that are left is refused
read_bytes_strict(data, len) ==
    IF SliceLen(data) <= len
    THEN Err("Fatal", data)
    ELSE Ok(Slice(data.lo, data.lo + len), Slice(data.lo + len, data.hi))

read_bytes(data, len) ==
    IF SliceLen(data) < len
    THEN Err("Fatal", data)
    ELSE Ok(Slice(data.lo, data.lo + len), Slice(data.lo + len, data.hi))

\* u8::from_be of a single byte is that byte
read_u8(data) ==
    LET r == read_bytes(data, 1)
    IN  IF r.ok THEN MapOk(r, ByteAt(r.val, 0)) ELSE r

\* variant: the high bit is not checked
read_u7_any(data) ==
    LET r == read_u8(data)
    IN  IF ~r.ok THEN r ELSE Ok(r.val, r.rest)

read_u7(data) ==
    LET r == read_u8(data)
    IN  IF ~r.ok THEN r
        ELSE IF r.val <= 127 THEN Ok(r.val, r.rest)
        ELSE Err("Invalid", r.rest)

\* variant: the two bytes are taken little-endian
u16_from_le_bytes(b) == ByteAt(b, 1) * 256 + ByteAt(b, 0)

u16_from_be_bytes(b) == ByteAt(b, 0) * 256 + ByteAt(b, 1)

u32_from_be_bytes(b) ==
    ((ByteAt(b, 0) * 256 + ByteAt(b, 1)) * 256 + ByteAt(b, 2)) * 256 + ByteAt(b, 3)

read_u16(data) ==
    LET r == read_bytes(data, 2)
    IN  IF r.ok THEN MapOk(r, u16_from_be_bytes(r.val)) ELSE r

\* the three bytes are copied into bytes[1..] of a zeroed [u8; 4]
read_u24(data) ==
    LET r == read_bytes(data, 3)
    IN  IF r.ok
        THEN MapOk(r, ((0 * 256 + ByteAt(r.val, 0)) * 256 + ByteAt(r.val, 1)) * 256
                        + ByteAt(r.val, 2))
        ELSE r

read_u32(data) ==
    LET r == read_bytes(data, 4)
    IN  IF r.ok THEN MapOk(r, u32_from_be_bytes(r.val)) ELSE r

read_format(data) ==
    Try(read_u16(data), LAMBDA r :
        CASE r.val = 0 -> Ok("Single", r.rest)
          [] r.val = 1 -> Ok("MultiTrack", r.rest)
          [] r.val = 2 -> Ok("MultiSequence", r.rest)
          [] OTHER -> Err("Invalid", r.rest))

expect_bytes(data, expected) ==
    Try(read_bytes(data, Len(expected)), LAMBDA r :
        IF Bytes(r.val) # expected THEN Err("Invalid", r.rest) ELSE Ok(<<>>, r.rest))

expect_u8(data, expected) ==
    Try(read_u8(data), LAMBDA r :
        IF r.val # expected THEN Err("Invalid", r.rest) ELSE Ok(<<>>, r.rest))

expect_u32(data, expected) ==
    Try(read_u32(data), LAMBDA r :
        IF r.val # expected THEN Err("Invalid", r.rest) ELSE Ok(<<>>, r.rest))

(***************************************************************************)
(* read_vlq (read.rs 91-109): the `while { body } { result <<= 7 }` loop   *)
(***************************************************************************)
RECURSIVE vlq_loop(_, _, _)
vlq_loop(data, result, size) ==
    IF size > 3
    THEN Err("Invalid", data)
    ELSE LET r == read_u8(data)
         IN  IF ~r.ok THEN r
             ELSE LET result1 == BitOr(result, BitAnd(r.val, 127))
                  IN  IF BitAnd(r.val, 128) # 0
                      THEN vlq_loop(r.rest, ShlU32(result1, 7), size + 1)
                      ELSE Ok(result1, r.rest)

\* variant: the byte count starts at one, so a fourth byte is refused
read_vlq_from1(data) == vlq_loop(data, 0, 1)

read_vlq(data) == vlq_loop(data, 0, 0)

\* `length as usize` keeps the value: usize is at least 32 bits wide
read_data(data) ==
    Try(read_vlq(data), LAMBDA length : read_bytes(length.rest, length.val))

\* Text::new wraps the view
read_text(data) == read_data(data)

read_action(data) ==
    Try(read_u8(data), LAMBDA byte :
        CASE byte.val = 0 -> Ok("Disconnect", byte.rest)
          [] byte.val = 127 -> Ok("Reconnect", byte.rest)
          [] OTHER -> Err("Invalid", byte.rest))

(***************************************************************************)
(* read_meta_event (read.rs 131-191)                                       *)
(***************************************************************************)
TextVariant(meta_type) ==
    CASE meta_type = 1 -> "Text"
      [] meta_type = 2 -> "CopyrightNotice"
      [] meta_type = 3 -> "Name"
      [] meta_type = 4 -> "InstrumentName"
      [] meta_type = 5 -> "Lyric"
      [] meta_type = 6 -> "Marker"
      [] meta_type = 7 -> "CuePoint"

\* variant: a type byte outside the table is refused
meta_unknown_refused(bytes, meta_type) == Err("Invalid", bytes)

\* the `_` arm: any other type byte is kept with its payload
meta_unknown(bytes, meta_type) ==
    Try(read_data(bytes), LAMBDA d :
        Ok([meta |-> "Unknown", meta_type |-> meta_type, data |-> d.val], d.rest))

read_meta_event(bytes) ==
    Try(read_u8(bytes), LAMBDA mt :
        LET meta_type == mt.val
            b0 == mt.rest
        IN  CASE meta_type = 0 ->
                   Try(expect_u8(b0, 2), LAMBDA e :
                   Try(read_u16(e.rest), LAMBDA number :
                       Ok([meta |-> "SequenceNumber", number |-> number.val], number.rest)))
              [] meta_type \in 1..7 ->
                   Try(read_text(b0), LAMBDA t :
                       Ok([meta |-> TextVariant(meta_type), text |-> t.val], t.rest))
              [] meta_type = 32 ->
                   Try(expect_u8(b0, 1), LAMBDA e :
                   Try(read_u8(e.rest), LAMBDA channel :
                       Ok([meta |-> "ChannelPrefix", channel |-> channel.val], channel.rest)))
              [] meta_type = 47 ->
                   Try(expect_u8(b0, 0), LAMBDA e :
                       Ok([meta |-> "EndOfTrack"], e.rest))
              [] meta_type = 81 ->
                   Try(expect_u8(b0, 3), LAMBDA e :
                   Try(read_u24(e.rest), LAMBDA tempo :
                       Ok([meta |-> "SetTempo", tempo |-> tempo.val], tempo.rest)))
              [] meta_type = 84 ->
                   Try(expect_u8(b0, 5), LAMBDA e :
                   Try(read_u8(e.rest), LAMBDA hh :
                   Try(read_u8(hh.rest), LAMBDA mm :
                   Try(read_u8(mm.rest), LAMBDA ss :
                   Try(read_u8(ss.rest), LAMBDA fr :
                   Try(read_u8(fr.rest), LAMBDA ff :
                       Ok([meta |-> "SMTPEOffset", hh |-> hh.val, mm |-> mm.val,
                           ss |-> ss.val, fr |-> fr.val, ff |-> ff.val], ff.rest)))))))
              [] meta_type = 88 ->
                   Try(expect_u8(b0, 4), LAMBDA e :
                   Try(read_u8(e.rest), LAMBDA nn :
                   Try(read_u8(nn.rest), LAMBDA dd :
                   Try(read_u8(dd.rest), LAMBDA cc :
                   Try(read_u8(cc.rest), LAMBDA bb :
                       Ok([meta |-> "TimeSignature", nn |-> nn.val, dd |-> dd.val,
                           cc |-> cc.val, bb |-> bb.val], bb.rest))))))
              [] meta_type = 89 ->
                   Try(expect_u8(b0, 2), LAMBDA e :
                   Try(read_u8(e.rest), LAMBDA sf :
                   Try(read_u8(sf.rest), LAMBDA mi :
                       Ok([meta |-> "KeySignature", sf |-> sf.val, mi |-> mi.val], mi.rest))))
              [] meta_type = 127 ->
                   Try(read_data(b0), LAMBDA d :
                       Ok([meta |-> "SequencerSpecific", data |-> d.val], d.rest))
              [] OTHER -> meta_unknown(b0, meta_type))

(***************************************************************************)
(* read_midi_event (read.rs 194-245)                                       *)
(***************************************************************************)
\* unimplemented!() unwinds out of the reader: no Result is returned
Panic(rest) ==
    [ok |-> FALSE, kind |-> "Panic", context |-> "not implemented", val |-> <<>>,
     rest |-> rest]

\* key, velocity (or lsb, msb): two read_u7 in a row
read_u7_pair(bytes) ==
    Try(read_u7(bytes), LAMBDA a :
    Try(read_u7(a.rest), LAMBDA b :
        Ok(<<a.val, b.val>>, b.rest)))

\* expect_u8(bytes, 0).map(|_| kind)
ExpectZeroAs(bytes, kind) == MapOk(expect_u8(bytes, 0), [midi |-> kind])

read_controller(bytes) ==
    Try(read_u7(bytes), LAMBDA number :
        CASE number.val = 120 -> ExpectZeroAs(number.rest, "AllSoundOff")
          [] number.val = 121 -> ExpectZeroAs(number.rest, "ResetAllControllers")
          [] number.val = 122 ->
               Try(read_action(number.rest), LAMBDA a :
                   Ok([midi |-> "LocalControl", action |-> a.val], a.rest))
          [] number.val = 123 -> ExpectZeroAs(number.rest, "AllNotesOff")
          [] number.val = 124 -> ExpectZeroAs(number.rest, "OmniModeOff")
          [] number.val = 125 -> ExpectZeroAs(number.rest, "OmniModeOn")
          [] number.val = 126 ->
               Try(read_u8(number.rest), LAMBDA n :
                   Ok([midi |-> "MonoModeOn", count |-> n.val], n.rest))
          [] number.val = 127 -> ExpectZeroAs(number.rest, "PolyModeOn")
          [] OTHER ->
               Try(read_u7(number.rest), LAMBDA value :
                   Ok([midi |-> "ControllerChange", number |-> number.val,
                       value |-> value.val], value.rest)))

read_midi_kind(bytes, status) ==
    CASE status = 128 ->
           Try(read_u7_pair(bytes), LAMBDA p :
               Ok([midi |-> "NoteOff", key |-> p.val[1], velocity |-> p.val[2]], p.rest))
      [] status = 144 ->
           Try(read_u7_pair(bytes), LAMBDA p :
               Ok([midi |-> "NoteOn", key |-> p.val[1], velocity |-> p.val[2]], p.rest))
      [] status = 160 ->
           Try(read_u7_pair(bytes), LAMBDA p :
               Ok([midi |-> "PolyphonicKeyPressure", key |-> p.val[1],
                   velocity |-> p.val[2]], p.rest))
      [] status = 176 -> read_controller(bytes)
      [] status = 192 ->
           Try(read_u7(bytes), LAMBDA p :
               Ok([midi |-> "ProgramChange", program |-> p.val], p.rest))
      [] status = 208 ->
           Try(read_u7(bytes), LAMBDA p :
               Ok([midi |-> "ChannelKeyPressure", pressure |-> p.val], p.rest))
      [] status = 224 ->
           Try(read_u7_pair(bytes), LAMBDA p :
               Ok([midi |-> "PitchBend", lsb |-> p.val[1], msb |-> p.val[2]], p.rest))
      [] OTHER -> Panic(bytes)

read_midi_event(bytes, status_byte) ==
    LET channel == BitAnd(status_byte, 15)
        status == BitAnd(status_byte, 240)
    IN  Try(read_midi_kind(bytes, status), LAMBDA kind :
            Ok([channel |-> channel, kind |-> kind.val], kind.rest))

(***************************************************************************)
(* The public low-level readers (read.rs 265-376)                          *)
(***************************************************************************)
MThd == <<77, 84, 104, 100>>

MTrk == <<77, 84, 114, 107>>

read_header_chunk(cursor0) ==
    Try(MapErrContext(expect_bytes(cursor0, MThd),
                      "read_header_chunk: header type must be 'MThd'"), LAMBDA t :
    Try(MapErrContext(expect_u32(t.rest, 6),
                      "read_header_chunk: header data length should be 6"), LAMBDA l :
    Try(MapErrContext(read_format(l.rest),
                      "read_header_chunk: header must specify format"), LAMBDA format :
    Try(MapErrContext(read_u16(format.rest),
                      "read_header_chunk: header must specify tracks"), LAMBDA tracks :
    Try(MapErrContext(read_u16(tracks.rest),
                      "read_header_chunk: header must specify division"), LAMBDA division :
        Ok([format |-> format.val, tracks |-> tracks.val, division |-> division.val],
           division.rest))))))

\* variant: a chunk longer than the buffer is cut to what is there
read_track_chunk_lenient(bytes) ==
    Try(MapErrContext(expect_bytes(bytes, MTrk),
                      "read_track_chunk: track type must be 'MTrk'"), LAMBDA t :
    Try(MapErrContext(read_u32(t.rest),
                      "read_track_chunk: track must specify len"), LAMBDA len :
        Ok([data |-> Slice(len.rest.lo, IF len.rest.lo + len.val < len.rest.hi
                                        THEN len.rest.lo + len.val ELSE len.rest.hi)],
           Slice(IF len.rest.lo + len.val < len.rest.hi
                 THEN len.rest.lo + len.val ELSE len.rest.hi, len.rest.hi))))

\* the value is TrackChunk { data }
read_track_chunk(bytes) ==
    Try(MapErrContext(expect_bytes(bytes, MTrk),
                      "read_track_chunk: track type must be 'MTrk'"), LAMBDA t :
    Try(MapErrContext(read_u32(t.rest),
                      "read_track_chunk: track must specify len"), LAMBDA len :
    Try(MapErrContext(read_bytes(len.rest, len.val),
                      "read_track_chunk: track must contain event bytes"), LAMBDA data :
        Ok([data |-> data.val], data.rest))))

read_event_kind(bytes, event_type) ==
    CASE event_type = 240 ->
           MapErrContext(
               Try(read_data(bytes), LAMBDA d :
                   Ok([tag |-> "Sysex", event |-> [sysex |-> "F0", data |-> d.val]], d.rest)),
               "read_event: failed to read sysex event")
      [] event_type = 247 ->
           MapErrContext(
               Try(read_data(bytes), LAMBDA d :
                   Ok([tag |-> "Sysex", event |-> [sysex |-> "F7", data |-> d.val]], d.rest)),
               "read_event: failed to read sysex event")
      [] event_type = 255 ->
           MapErrContext(
               Try(read_meta_event(bytes), LAMBDA m :
                   Ok([tag |-> "Meta", event |-> m.val], m.rest)),
               "read_event: failed to read meta event")
      [] OTHER ->
           MapErrContext(
               Try(read_midi_event(bytes, event_type), LAMBDA m :
                   Ok([tag |-> "Midi", event |-> m.val], m.rest)),
               "read_event: failed to read midi event")

read_event(bytes) ==
    Try(MapErrContext(read_vlq(bytes),
                      "read_event: event must have valid time"), LAMBDA time :
    Try(MapErrContext(read_u8(time.rest),
                      "read_event: event must have type"), LAMBDA event_type :
    Try(read_event_kind(event_type.rest, event_type.val), LAMBDA kind :
        Ok([kind |-> kind.val, time |-> time.val], kind.rest))))

(***************************************************************************)
(* SmfReader and the two iterators (read.rs 387-515)                       *)
(***************************************************************************)
\* Option<Result<T, Error>>: None, Some(Ok(val)) or Some(Err(Error)); a panic
\* leaves through the call
NoneItem == [kind |-> "None", context |-> NoContext, val |-> <<>>]

Item(r) == [kind |-> r.kind, context |-> r.context, val |-> r.val]

\* SmfReader::new: the value is the reader, whose data is the advanced cursor
SmfReader_new(data) ==
    Try(read_header_chunk(data), LAMBDA header :
        Ok([header |-> header.val, data |-> header.rest], header.rest))

\* `header.tracks as usize` keeps the value
track_chunk_iter(self) == [data |-> self.data, tracks |-> self.header.tracks]

\* the iterator after read_track_chunk returned r, and the item it yields
TrackChunkIter_item(tracks1, r) ==
    [self |-> [data |-> r.rest, tracks |-> tracks1], item |-> Item(r)]

\* variant: the countdown is not decremented
TrackChunkIter_next_nodec(self) ==
    IF self.tracks = 0
    THEN IF IsEmpty(self.data)
         THEN [self |-> self, item |-> NoneItem]
         ELSE [self |-> self,
               item |-> [kind |-> "Invalid",
                         context |-> "TrackChunkIter::next: undread data left",
                         val |-> <<>>]]
    ELSE TrackChunkIter_item(self.tracks, read_track_chunk(self.data))

\* variant: bytes left after the last declared chunk are ignored
TrackChunkIter_next_silent(self) ==
    IF self.tracks = 0
    THEN [self |-> self, item |-> NoneItem]
    ELSE TrackChunkIter_item(self.tracks - 1, read_track_chunk(self.data))

\* `cursor` borrows self.data, so what read_track_chunk consumed before it
\* failed stays consumed
TrackChunkIter_next(self) ==
    IF self.tracks = 0
    THEN IF IsEmpty(self.data)
         THEN [self |-> self, item |-> NoneItem]
         ELSE [self |-> self,
               item |-> [kind |-> "Invalid",
                         context |-> "TrackChunkIter::next: undread data left",
                         val |-> <<>>]]
    ELSE TrackChunkIter_item(self.tracks - 1, read_track_chunk(self.data))

\* the chunk after read_event returned r, and the item it yields
TrackChunk_item(r) == [self |-> [data |-> r.rest], item |-> Item(r)]

\* `cursor` borrows self.data here too
TrackChunk_next(self) ==
    IF IsEmpty(self.data)
    THEN [self |-> self, item |-> NoneItem]
    ELSE TrackChunk_item(read_event(self.data))

(***************************************************************************)
(* Smf::read (features/alloc.rs 39-59)                                     *)
(***************************************************************************)
\* events.collect::<Result<Vec<_>, _>>(): the events up to None, or the first error
RECURSIVE collect_events(_, _)
collect_item(n, acc) ==
    CASE n.item.kind = "None" -> [kind |-> "Ok", context |-> NoContext, val |-> acc]
      [] n.item.kind = "Ok" -> collect_events(n.self, Append(acc, n.item.val))
      [] OTHER -> n.item

collect_events(events, acc) == collect_item(TrackChunk_next(events), acc)

\* for track_chunk_data in track_chunks { .. tracks.push(track) }
RECURSIVE read_tracks(_, _)
\* let events = events?; tracks.push(Track { events })
push_track(track_chunks, events, tracks) ==
    IF events.kind = "Ok"
    THEN read_tracks(track_chunks, Append(tracks, [events |-> events.val]))
    ELSE events

\* let track_chunk = track_chunk_data?
read_track(n, tracks) ==
    CASE n.item.kind = "None" -> [kind |-> "Ok", context |-> NoContext, val |-> tracks]
      [] n.item.kind = "Ok" -> push_track(n.self, collect_events(n.item.val, <<>>), tracks)
      [] OTHER -> n.item

read_tracks(track_chunks, tracks) == read_track(TrackChunkIter_next(track_chunks), tracks)

\* Ok(Smf { format, tracks, division })
Smf_new(header, tracks) ==
    IF tracks.kind = "Ok"
    THEN [kind |-> "Ok", context |-> NoContext,
          val |-> [format |-> header.format, tracks |-> tracks.val,
                   division |-> header.division]]
    ELSE tracks

\* let reader = SmfReader::new(data)?
Smf_read_from(reader0) ==
    IF ~reader0.ok
    THEN Item(reader0)
    ELSE Smf_new(reader0.val.header, read_tracks(track_chunk_iter(reader0.val), <<>>))

Smf_read(data) == Smf_read_from(SmfReader_new(data))

(***************************************************************************)
(* The incremental header reader of lib.rs (161-244); the byte source is a *)
(* view that read_exact advances                                           *)
(***************************************************************************)
\* io.read_exact(&mut data): all of the n bytes, or an error at the end of
\* the source
lib_read_exact(io, n) ==
    IF SliceLen(io) < n
    THEN Err("UnexpectedEof", Slice(io.hi, io.hi))
    ELSE Ok(Slice(io.lo, io.lo + n), Slice(io.lo + n, io.hi))

\* the error of read_exact is dropped: a short read leaves `data` unequal
lib_starts_with(io, bytes) ==
    LET r == lib_read_exact(io, 4)
    IN  [r EXCEPT !.ok = TRUE, !.kind = "Ok", !.val = r.ok /\ Bytes(r.val) = bytes]

lib_u16_from_le_bytes(b) == b[1] + b[2] * 256

lib_u32_from_le_bytes(b) == b[1] + b[2] * 256 + b[3] * 65536 + b[4] * 16777216

lib_read_u16(io) ==
    Try(lib_read_exact(io, 2), LAMBDA r : Ok(lib_u16_from_le_bytes(Bytes(r.val)), r.rest))

lib_read_u32(io) ==
    Try(lib_read_exact(io, 4), LAMBDA r : Ok(lib_u32_from_le_bytes(Bytes(r.val)), r.rest))

\* result.ok()...ok_or_else(|| e)? and result.map_err(|_| e)?
lib_or(r, accepted, e) == IF r.ok /\ accepted THEN r ELSE Err(e, r.rest)

lib_format(r) ==
    IF ~r.ok \/ r.val > 2 THEN r
    ELSE [r EXCEPT !.val = CASE r.val = 0 -> "Single"
                              [] r.val = 1 -> "MultiTrack"
                              [] r.val = 2 -> "MultiSequence"]

lib_header_fields(io) ==
    Try(lib_or(lib_read_u32(io), lib_read_u32(io).val = 6, "HeaderLength"), LAMBDA length :
    Try(lib_or(lib_format(lib_read_u16(length.rest)),
               lib_read_u16(length.rest).val \in 0..2, "HeaderFormat"), LAMBDA format :
    Try(lib_or(lib_read_u16(format.rest), TRUE, "HeaderTracks"), LAMBDA tracks :
    Try(lib_or(lib_read_u16(tracks.rest), TRUE, "HeaderDivision"), LAMBDA division :
        Ok([format |-> format.val, tracks |-> tracks.val, division |-> division.val],
           division.rest)))))

lib_read_header(io) ==
    Try(lib_starts_with(io, MThd), LAMBDA magic :
        IF ~magic.val THEN Err("HeaderLength", magic.rest)
        ELSE lib_header_fields(magic.rest))

(***************************************************************************)
(* Inputs of the low-level readers                                         *)
(***************************************************************************)
SeqsUpTo(S, n) == UNION {[1..k -> S] : k \in 0..n}

Prefixes(s) == {SubSeq(s, 1, k) : k \in 0..Len(s)}

\* the decode table of test_read_vlq (read.rs 557-562)
VlqTable ==
    { <<0>>, <<127>>, <<129, 0>>, <<255, 127>>, <<135, 104>>, <<189, 132, 64>> }

VlqBytes == {0, 127, 128, 255}

VlqInputs == VlqTable \cup SeqsUpTo(VlqBytes, MaxVlqLen)

\* header chunks, right and wrong in each field, cut at every length
HeaderFull ==
    { m \o l \o f \o t \o d \o x :
        m \in {MThd, MTrk, <<77, 84, 104, 0>>},
        l \in {<<0, 0, 0, 6>>, <<6, 0, 0, 0>>, <<0, 0, 0, 5>>},
        f \in {<<0, 0>>, <<0, 1>>, <<0, 2>>, <<0, 3>>, <<1, 0>>},
        t \in {<<0, 3>>, <<3, 0>>, <<0, 0>>},
        d \in {<<4, 0>>, <<0, 96>>},
        x \in SeqsUpTo({77}, MaxTrailing) }

HeaderInputs == UNION {Prefixes(h) : h \in HeaderFull}

\* payload bytes of the event inputs: 83, 166, 249, 76, 159, ...
Filler(k) == [i \in 1..k |-> (i * 83) % 256]

\* length prefixes: one byte, two bytes, too long for the data, unterminated
LenEnc ==
    {<<n>> : n \in 0..5} \cup {<<128, 2>>, <<129, 0>>, <<255, 255, 255, 255, 0>>, <<128>>, <<>>}

DataBytes == {0, 127, 128}

EventTimes == {<<0>>, <<129, 0>>}

\* any type byte followed by a few data bytes
EventInputsAny ==
    { t \o <<ty>> \o d : t \in EventTimes, ty \in 0..255, d \in SeqsUpTo(DataBytes, MaxTail) }

\* controller messages of every controller number
EventInputsController ==
    { <<0, st, n>> \o d : st \in {176, 191}, n \in 0..255, d \in SeqsUpTo({0, 1, 127, 128}, 1) }

\* meta events of every type byte, sysex events
EventInputsData ==
    { <<0, 255, mt>> \o l \o Filler(k) : mt \in 0..255, l \in LenEnc, k \in 0..MaxData }
    \cup { <<0, ty>> \o l \o Filler(k) : ty \in {240, 247}, l \in LenEnc, k \in 0..MaxData }

\* no time, or no type byte
EventInputsShort == {<<>>, <<0>>, <<128>>, <<129, 0>>, <<255, 255, 255, 255, 0>>}

EventInputs ==
    EventInputsAny \cup EventInputsController \cup EventInputsData \cup EventInputsShort

(***************************************************************************)
(* The low-level readers, each called once on a fresh cursor               *)
(***************************************************************************)
NoFile == [kind |-> "none", declared |-> 0, chunks |-> <<>>]

NoReader == [header |-> <<>>, data |-> Slice(0, 0)]

NoIter == [data |-> Slice(0, 0), tracks |-> 0]

NoChunk == [data |-> Slice(0, 0), no |-> 0]

InitRead ==
    /\ \/ call \in {"read_vlq", "read_u7"} /\ input \in VlqInputs
       \/ call \in {"read_header_chunk", "read_header"} /\ input \in HeaderInputs
       \/ call = "read_event" /\ input \in EventInputs
    /\ file = NoFile
    /\ pc = "start"
    /\ cursor = Slice(0, Len(input))
    /\ ret = Ok(<<>>, Slice(0, 0))
    /\ reader = NoReader /\ iter = NoIter /\ chunk = NoChunk
    /\ calls = <<>> /\ evs = <<>> /\ firstErr = NoneItem

Return(r) ==
    /\ pc' = "done"
    /\ ret' = r
    /\ cursor' = r.rest
    /\ UNCHANGED <<input, file, call, reader, iter, chunk, calls, evs, firstErr>>

CallReadVlq ==
    /\ pc = "start" /\ call = "read_vlq"
    /\ Return(read_vlq(cursor))

CallReadU7 ==
    /\ pc = "start" /\ call = "read_u7"
    /\ Return(read_u7(cursor))

CallReadHeaderChunk ==
    /\ pc = "start" /\ call = "read_header_chunk"
    /\ Return(read_header_chunk(cursor))

CallReadEvent ==
    /\ pc = "start" /\ call = "read_event"
    /\ Return(read_event(cursor))

CallReadHeader ==
    /\ pc = "start" /\ call = "read_header"
    /\ Return(lib_read_header(cursor))

NextRead ==
    CallReadVlq \/ CallReadU7 \/ CallReadHeaderChunk \/ CallReadEvent \/ CallReadHeader

SpecRead == InitRead /\ [][NextRead]_vars

(***************************************************************************)
(* Files: a header chunk and track chunks, each chunk a list of events     *)
(***************************************************************************)
\* channel voice messages, one of each kind
VoiceEvents ==
    << <<0, 144, 60, 100>>, <<129, 0, 129, 60, 0>>, <<0, 161, 60, 127>>, <<0, 178, 7, 100>>,
       <<0, 195, 5>>, <<0, 212, 64>>, <<0, 239, 0, 64>> >>

\* channel mode messages, controllers 0x78-0x7F
ModeEvents ==
    << <<0, 176, 120, 0>>, <<0, 176, 121, 0>>, <<0, 176, 122, 127>>, <<0, 176, 122, 0>>,
       <<0, 176, 123, 0>>, <<0, 176, 124, 0>>, <<0, 176, 125, 0>>, <<0, 176, 126, 1>>,
       <<0, 176, 127, 0>> >>

\* meta events of fixed length, the last one EndOfTrack
MetaEvents ==
    << <<0, 255, 0, 2, 0, 1>>, <<0, 255, 32, 1, 3>>, <<0, 255, 81, 3, 7, 161, 32>>,
       <<0, 255, 84, 5, 1, 2, 3, 4, 5>>, <<0, 255, 88, 4, 4, 2, 24, 8>>,
       <<0, 255, 89, 2, 255, 0>>, <<0, 255, 47, 0>> >>

\* meta events and sysex events that carry a length and that many bytes
DataEvents ==
    << <<0, 255, 1, 2, 72, 105>>, <<0, 255, 2, 0>>, <<0, 255, 3, 1, 65>>, <<0, 255, 4, 1, 66>>,
       <<0, 255, 5, 129, 0>> \o [i \in 1..128 |-> 97],
       <<0, 255, 6, 1, 68>>, <<0, 255, 7, 1, 69>>, <<0, 255, 127, 1, 9>>,
       <<0, 255, 16, 3, 1, 2, 3>>, <<0, 240, 2, 67, 247>>, <<0, 247, 1, 247>> >>

\* a file names the payload of each of its chunks
WellFormedChunks == {"empty", "voice", "mode", "meta", "data"}

\* payloads that are not a run of events: a status byte outside the table, a
\* data byte with the high bit set, a length that runs past the chunk
MalformedChunks == {"status", "highbit", "overrun"}

Chunks == WellFormedChunks \cup MalformedChunks

\* the events of a payload (for a malformed one: the pieces it is made of)
Events(name) ==
    CASE name = "empty" -> <<>>
      [] name = "voice" -> VoiceEvents
      [] name = "mode" -> ModeEvents
      [] name = "meta" -> MetaEvents
      [] name = "data" -> DataEvents
      [] name = "status" -> << <<0, 144, 60, 100>>, <<0, 241>>, <<0, 144, 60, 100>> >>
      [] name = "highbit" -> << <<0, 144, 60, 128>>, <<0, 144, 60, 100>> >>
      [] name = "overrun" -> << <<0, 255, 1, 5, 72, 105>> >>

RECURSIVE Flatten(_)
Flatten(ss) == IF ss = <<>> THEN <<>> ELSE Head(ss) \o Flatten(Tail(ss))

U16Bytes(n) == <<n \div 256, n % 256>>

U32Bytes(n) == <<n \div 16777216, (n \div 65536) % 256, (n \div 256) % 256, n % 256>>

HeaderBytes(declared) == MThd \o U32Bytes(6) \o U16Bytes(1) \o U16Bytes(declared) \o U16Bytes(96)

ChunkBytes(name) ==
    MTrk \o U32Bytes(Len(Flatten(Events(name)))) \o Flatten(Events(name))

FileKinds == {"exact", "cut", "extra", "missing", "junk"}

\* "exact": as many chunks as declared; "cut": the same without its last byte;
\* "extra": one chunk more than declared; "missing": one less; "junk": a byte
\* after the last chunk
Files ==
    { [kind |-> k,
       declared |-> CASE k = "extra" -> Len(c) - 1 [] k = "missing" -> Len(c) + 1
                      [] OTHER -> Len(c),
       chunks |-> c] :
        k \in FileKinds, c \in SeqsUpTo(Chunks, MaxTracks) }

FileBytes(f) ==
    LET all == HeaderBytes(f.declared) \o Flatten([i \in 1..Len(f.chunks) |-> ChunkBytes(f.chunks[i])])
    IN  CASE f.kind = "cut" -> SubSeq(all, 1, Len(all) - 1)
          [] f.kind = "junk" -> all \o <<0>>
          [] OTHER -> all

(***************************************************************************)
(* The client of the reader: SmfReader::new, track_chunk_iter, next on the *)
(* track chunk iterator and next on the chunk it yielded last; or Smf::read *)
(***************************************************************************)
Init ==
    /\ call \in {"SmfReader", "Smf::read"}
    /\ file \in {f \in Files : f.declared >= 0}
    /\ input = FileBytes(file)
    /\ pc = "start"
    /\ cursor = Slice(0, Len(input))
    /\ ret = NoneItem
    /\ reader = NoReader /\ iter = NoIter /\ chunk = NoChunk
    /\ calls = <<>> /\ evs = <<>> /\ firstErr = NoneItem

\* the first error is kept
Note(item) == firstErr' = IF firstErr.kind = "None" /\ item.kind \notin {"None", "Ok"}
                          THEN item ELSE firstErr

\* a panic unwinds: the client makes no further call
After(item, to) == pc' = IF item.kind = "Panic" THEN "panicked" ELSE to

SmfReaderReturn(r) ==
    /\ ret' = Item(r)
    /\ Note(Item(r))
    /\ reader' = IF r.ok THEN r.val ELSE reader
    /\ pc' = IF r.ok THEN "reader" ELSE "done"

SmfReaderNew ==
    /\ pc = "start" /\ call = "SmfReader"
    /\ SmfReaderReturn(SmfReader_new(cursor))
    /\ UNCHANGED <<input, file, call, cursor, iter, chunk, calls, evs>>

TrackChunkIterCreate ==
    /\ pc = "reader"
    /\ iter' = track_chunk_iter(reader)
    /\ pc' = "iter"
    /\ UNCHANGED <<input, file, call, cursor, ret, reader, chunk, calls, evs, firstErr>>

\* a chunk the iterator yields replaces the one held
TrackChunkIterReturn(n) ==
    /\ iter' = n.self
    /\ ret' = n.item
    /\ Note(n.item)
    /\ After(n.item, "iter")
    /\ calls' = Append(calls, [before |-> iter, item |-> n.item])
    /\ IF n.item.kind = "Ok"
       THEN /\ chunk' = [data |-> n.item.val.data, no |-> Len(calls) + 1]
            /\ evs' = <<>>
       ELSE UNCHANGED <<chunk, evs>>

\* next on the track chunk iterator
TrackChunkIterNext ==
    /\ pc = "iter"
    /\ Len(calls) < file.declared + 2 + MaxExtraCalls
    /\ TrackChunkIterReturn(TrackChunkIter_next(iter))
    /\ UNCHANGED <<input, file, call, cursor, reader>>

TrackChunkReturn(n) ==
    /\ chunk' = [chunk EXCEPT !.data = n.self.data]
    /\ ret' = n.item
    /\ Note(n.item)
    /\ After(n.item, "iter")
    /\ evs' = Append(evs, [before |-> chunk.data, item |-> n.item])

\* next on the chunk held, until it has returned None
TrackChunkNext ==
    /\ pc = "iter" /\ chunk.no > 0
    /\ IF evs = <<>> THEN TRUE ELSE evs[Len(evs)].item.kind # "None"
    /\ TrackChunkReturn(TrackChunk_next([data |-> chunk.data]))
    /\ UNCHANGED <<input, file, call, cursor, reader, iter, calls>>

SmfReadReturn(r) ==
    /\ ret' = r
    /\ Note(r)
    /\ After(r, "done")

SmfRead ==
    /\ pc = "start" /\ call = "Smf::read"
    /\ SmfReadReturn(Smf_read(cursor))
    /\ UNCHANGED <<input, file, call, cursor, reader, iter, chunk, calls, evs>>

Next ==
    \/ SmfReaderNew
    \/ TrackChunkIterCreate
    \/ TrackChunkIterNext
    \/ TrackChunkNext
    \/ SmfRead

Spec == Init /\ [][Next]_vars

(***************************************************************************)
(* What the format says about a buffer, read off the bytes of `input`      *)
(* without the reader                                                      *)
(***************************************************************************)
HighBit(b) == b >= 128

Low7(b) == b % 128

\* the number of bytes (1..4) of the quantity that starts at offset p of s: the
\* bytes before the last have the high bit set, the last has it clear; 0 if none
VlqLenAt(s, p) ==
    IF \E k \in 1..4 : /\ p + k <= Len(s)
                       /\ ~HighBit(s[p + k])
                       /\ \A i \in 1..(k - 1) : HighBit(s[p + i])
    THEN CHOOSE k \in 1..4 : /\ p + k <= Len(s)
                             /\ ~HighBit(s[p + k])
                             /\ \A i \in 1..(k - 1) : HighBit(s[p + i])
    ELSE 0

RECURSIVE Pow128(_)
Pow128(n) == IF n = 0 THEN 1 ELSE 128 * Pow128(n - 1)

RECURSIVE SumTo(_, _)
SumTo(f, n) == IF n = 0 THEN 0 ELSE f[n] + SumTo(f, n - 1)

\* the low 7 bits of the k bytes at offset p, most significant group first
VlqValAt(s, p, k) == SumTo([i \in 1..k |-> Low7(s[p + i]) * Pow128(k - i)], k)

BE16At(s, p) == s[p + 1] * 256 + s[p + 2]

BE32At(s, p) == s[p + 1] * 16777216 + s[p + 2] * 65536 + s[p + 3] * 256 + s[p + 4]

Consumed == Len(input) - SliceLen(cursor)

Returned(f) == pc = "done" /\ call = f

(***************************************************************************)
(* C1: read_vlq on a buffer that starts with k-1 bytes with the high bit   *)
(* set and then one with it clear (1 <= k <= 4) returns Ok(v), v the       *)
(* MSB-first concatenation of the low 7 bits of those k bytes, and leaves  *)
(* the cursor exactly k bytes further; the six entries of the decode table *)
(* give their listed values and leave the cursor empty.                    *)
(***************************************************************************)
VlqTableValue(s) ==
    CASE s = <<0>> -> 0
      [] s = <<127>> -> 127
      [] s = <<129, 0>> -> 128
      [] s = <<255, 127>> -> 16383
      [] s = <<135, 104>> -> 1000
      [] s = <<189, 132, 64>> -> 1000000

C1_VlqDecodes ==
    (Returned("read_vlq") /\ VlqLenAt(input, 0) # 0) =>
        LET k == VlqLenAt(input, 0)
        IN  /\ ret.ok
            /\ ret.val = VlqValAt(input, 0, k)
            /\ cursor = Slice(k, Len(input))
            /\ input \in VlqTable => (ret.val = VlqTableValue(input) /\ IsEmpty(cursor))

C1_Witness ==
    /\ Returned("read_vlq")
    /\ input = <<189, 132, 64>>
    /\ ret.ok /\ ret.val = 1000000 /\ IsEmpty(cursor)

(***************************************************************************)
(* C2: read_header_chunk succeeds exactly on 'MThd', a big-endian u32 6, a *)
(* big-endian u16 format 0..2 and four more bytes; it then returns the     *)
(* format, the tracks and the division (big-endian) and leaves the cursor  *)
(* 14 bytes further.  Otherwise it returns the error of the first failing  *)
(* step with that step's context: Fatal if the step's bytes are not all    *)
(* there, Invalid if they are there and wrong.                             *)
(***************************************************************************)
FormatName(n) ==
    CASE n = 0 -> "Single" [] n = 1 -> "MultiTrack" [] n = 2 -> "MultiSequence"

HeaderExpected(s) ==
    LET fail(k, c) == [ok |-> FALSE, kind |-> k, context |-> c, val |-> <<>>]
    IN  CASE Len(s) < 4 -> fail("Fatal", "read_header_chunk: header type must be 'MThd'")
          [] Len(s) >= 4 /\ SubSeq(s, 1, 4) # <<77, 84, 104, 100>> ->
               fail("Invalid", "read_header_chunk: header type must be 'MThd'")
          [] OTHER ->
        CASE Len(s) < 8 -> fail("Fatal", "read_header_chunk: header data length should be 6")
          [] Len(s) >= 8 /\ BE32At(s, 4) # 6 ->
               fail("Invalid", "read_header_chunk: header data length should be 6")
          [] OTHER ->
        CASE Len(s) < 10 -> fail("Fatal", "read_header_chunk: header must specify format")
          [] Len(s) >= 10 /\ BE16At(s, 8) > 2 ->
               fail("Invalid", "read_header_chunk: header must specify format")
          [] OTHER ->
        CASE Len(s) < 12 -> fail("Fatal", "read_header_chunk: header must specify tracks")
          [] Len(s) \in {12, 13} ->
               fail("Fatal", "read_header_chunk: header must specify division")
          [] OTHER ->
               [ok |-> TRUE, kind |-> "Ok", context |-> "",
                val |-> [format |-> FormatName(BE16At(s, 8)),
                         tracks |-> BE16At(s, 10),
                         division |-> BE16At(s, 12)]]

HeaderLiteral == <<77, 84, 104, 100, 0, 0, 0, 6, 0, 1, 0, 3, 4, 0>>

C2_HeaderChunk ==
    Returned("read_header_chunk") =>
        LET e == HeaderExpected(input)
        IN  /\ ret.ok = e.ok
            /\ ret.kind = e.kind
            /\ ret.context = e.context
            /\ ret.val = e.val
            /\ ret.ok => cursor = Slice(14, Len(input))

C2_Witness ==
    /\ Returned("read_header_chunk")
    /\ input = HeaderLiteral
    /\ ret.ok
    /\ ret.val = [format |-> "MultiTrack", tracks |-> 3, division |-> 1024]
    /\ IsEmpty(cursor)

(***************************************************************************)
(* C7: read_event is total: on every byte sequence it returns Ok(event) or *)
(* an Error of kind Fatal or Invalid and never panics, also on a type byte *)
(* in 0xF1-0xF6, 0xF8-0xFE or below 0x80.                                  *)
(***************************************************************************)
C7_ReadEventTotal ==
    Returned("read_event") => ret.kind \in {"Ok", "Fatal", "Invalid"}

(***************************************************************************)
(* C8: read_u7 returns Ok(b) for a byte b <= 0x7F and Invalid for a byte   *)
(* >= 0x80 and consumes one byte either way; so read_event on a NoteOff,   *)
(* NoteOn, PolyphonicKeyPressure, ProgramChange, ChannelKeyPressure,       *)
(* PitchBend or generic ControllerChange one of whose data bytes has the   *)
(* high bit set returns Invalid with the context "read_event: failed to    *)
(* read midi event" and no event.                                          *)
(***************************************************************************)
\* the event at offset k of s (after its time) is a channel message one of whose
\* data bytes has the high bit set
HighDataByte(s, k) ==
    /\ Len(s) >= k + 2
    /\ LET hn == s[k + 1] \div 16
           first == s[k + 2]
           secondHigh == Len(s) >= k + 3 /\ HighBit(s[k + 3])
       IN  \/ hn \in {8, 9, 10, 14} /\ (HighBit(first) \/ secondHigh)
           \/ hn \in {12, 13} /\ HighBit(first)
           \/ hn = 11 /\ (HighBit(first) \/ (first < 120 /\ secondHigh))

C8_SevenBitFields ==
    /\ (Returned("read_u7") /\ Len(input) >= 1) =>
           /\ ~HighBit(input[1]) => (ret.ok /\ ret.val = input[1])
           /\ HighBit(input[1]) => (~ret.ok /\ ret.kind = "Invalid")
           /\ cursor = Slice(1, Len(input))
    /\ (Returned("read_event") /\ VlqLenAt(input, 0) # 0
            /\ HighDataByte(input, VlqLenAt(input, 0))) =>
           /\ ~ret.ok
           /\ ret.kind = "Invalid"
           /\ ret.context = "read_event: failed to read midi event"
           /\ ret.val = <<>>

C8_Witness ==
    /\ Returned("read_event")
    /\ input = <<0, 144, 0, 128>>
    /\ ret.kind = "Invalid"
    /\ ret.context = "read_event: failed to read midi event"

(***************************************************************************)
(* C9: a meta event 0xFF t, t outside the table of known types, followed   *)
(* by a VLQ length L and at least L bytes decodes to Unknown{meta_type: t, *)
(* data} with data exactly those L bytes, and the cursor ends right after  *)
(* the type byte, the VLQ and the L data bytes.                            *)
(***************************************************************************)
KnownMetaTypes == {0} \cup (1..7) \cup {32, 47, 81, 84, 88, 89, 127}

C9_UnknownMeta ==
    LET k == VlqLenAt(input, 0)
        m == VlqLenAt(input, k + 2)
        L == VlqValAt(input, k + 2, m)
        from == k + 2 + m
    IN  (/\ Returned("read_event")
         /\ k # 0 /\ Len(input) >= k + 2
         /\ input[k + 1] = 255
         /\ input[k + 2] \notin KnownMetaTypes
         /\ m # 0
         /\ Len(input) >= from + L) =>
            /\ ret.ok
            /\ ret.val.kind.tag = "Meta"
            /\ ret.val.kind.event =
                   [meta |-> "Unknown", meta_type |-> input[k + 2],
                    data |-> Slice(from, from + L)]
            /\ Bytes(ret.val.kind.event.data) = SubSeq(input, from + 1, from + L)
            /\ cursor = Slice(from + L, Len(input))

C9_Witness ==
    /\ Returned("read_event")
    /\ input = <<0, 255, 16, 2, 83, 166, 249>>
    /\ ret.ok
    /\ ret.val.kind.event = [meta |-> "Unknown", meta_type |-> 16, data |-> Slice(4, 6)]
    /\ cursor = Slice(6, 7)

(***************************************************************************)
(* C10: read_vlq never consumes more than 4 bytes; it fails with Invalid   *)
(* when the first four bytes all have the high bit set, and with Fatal     *)
(* when the buffer ends, after fewer than four bytes, before a byte with   *)
(* the high bit clear.                                                     *)
(***************************************************************************)
C10_VlqLimits ==
    Returned("read_vlq") =>
        /\ Consumed <= 4
        /\ cursor.hi = Len(input)
        /\ (Len(input) >= 4 /\ \A i \in 1..4 : HighBit(input[i])) =>
               (~ret.ok /\ ret.kind = "Invalid")
        /\ (Len(input) < 4 /\ \A i \in 1..Len(input) : HighBit(input[i])) =>
               (~ret.ok /\ ret.kind = "Fatal")

C10_Witness ==
    /\ Returned("read_vlq")
    /\ input = <<255, 255, 255, 255, 0>>
    /\ ret.kind = "Invalid"
    /\ Consumed = 4

(***************************************************************************)
(* What a file says about itself: where its chunks lie in the buffer       *)
(***************************************************************************)
PayloadLen(i) == Len(Flatten(Events(file.chunks[i])))

RECURSIVE ChunkStart(_)
ChunkStart(i) == IF i = 1 THEN 14 ELSE ChunkStart(i - 1) + 8 + PayloadLen(i - 1)

\* the payload of the i-th chunk
ChunkSpan(i) == Slice(ChunkStart(i) + 8, ChunkStart(i) + 8 + PayloadLen(i))

\* the iterator as the i-th call of next left it
IterAfter(i) == IF i < Len(calls) THEN calls[i + 1].before ELSE iter

\* the held chunk as the j-th call of next left it
ChunkAfter(j) == IF j < Len(evs) THEN evs[j + 1].before ELSE chunk.data

WellFormed(f) == \A i \in 1..Len(f.chunks) : f.chunks[i] \in WellFormedChunks

UndreadData ==
    [kind |-> "Invalid", context |-> "TrackChunkIter::next: undread data left", val |-> <<>>]

InBounds(s) == 0 <= s.lo /\ s.lo <= s.hi /\ s.hi <= Len(input)

(***************************************************************************)
(* C3: on a valid header declaring N tracks followed by exactly N          *)
(* well-framed 'MTrk' chunks the track chunk iterator yields N Ok items in *)
(* file order, the i-th the span of the i-th chunk's declared length (the  *)
(* iterator's data shrinks by 8 + length at each step), and the (N+1)-th   *)
(* call of next returns None.                                              *)
(***************************************************************************)
C3_YieldsDeclaredChunks ==
    file.kind = "exact" =>
        \A i \in 1..Len(calls) :
            /\ i <= file.declared =>
                   /\ calls[i].item.kind = "Ok"
                   /\ calls[i].item.val = [data |-> ChunkSpan(i)]
                   /\ SliceLen(calls[i].before.data) - SliceLen(IterAfter(i).data)
                          = 8 + PayloadLen(i)
            /\ i = file.declared + 1 => calls[i].item = NoneItem

C3_Witness ==
    /\ file.kind = "exact" /\ file.declared = 2
    /\ file.chunks[1] # file.chunks[2]
    /\ Len(calls) = 3
    /\ calls[1].item.kind = "Ok" /\ calls[2].item.kind = "Ok"
    /\ calls[3].item = NoneItem

(***************************************************************************)
(* C4: on a header declaring N tracks followed by N+1 chunks the iterator  *)
(* yields N Ok chunks and then the Invalid error "TrackChunkIter::next:    *)
(* undread data left"; whenever the countdown is zero and data is left,    *)
(* next returns that error and never None.                                 *)
(***************************************************************************)
C4_UndreadDataLeft ==
    \A i \in 1..Len(calls) :
        /\ (file.kind = "extra" /\ i <= file.declared) => calls[i].item.kind = "Ok"
        /\ (file.kind = "extra" /\ i = file.declared + 1) => calls[i].item = UndreadData
        /\ (calls[i].before.tracks = 0 /\ ~IsEmpty(calls[i].before.data)) =>
               calls[i].item = UndreadData

C4_Witness ==
    /\ file.kind = "extra" /\ file.declared = 1
    /\ Len(calls) = 2
    /\ calls[1].item.kind = "Ok"
    /\ calls[2].item = UndreadData

(***************************************************************************)
(* C5: on a well-formed file (valid header, as many chunks as declared,    *)
(* each payload a run of complete events) decoding the header, every       *)
(* chunk and every event returns no error, produces as many tracks as      *)
(* declared, and leaves no byte unconsumed in the buffer or in a chunk.    *)
(***************************************************************************)
C5_WellFormedDecodes ==
    (file.kind = "exact" /\ WellFormed(file)) =>
        /\ firstErr.kind = "None" /\ pc # "panicked"
        /\ \A i \in 1..Len(calls) :
               /\ i <= file.declared => calls[i].item.kind = "Ok"
               /\ i > file.declared =>
                      /\ calls[i].item = NoneItem
                      /\ IsEmpty(iter.data) /\ iter.data.lo = Len(input)
        /\ \A j \in 1..Len(evs) :
               /\ j <= Len(Events(file.chunks[chunk.no])) =>
                      /\ evs[j].item.kind = "Ok"
                      /\ ChunkAfter(j).lo - evs[j].before.lo
                             = Len(Events(file.chunks[chunk.no])[j])
               /\ evs[j].item.kind = "None" =>
                      /\ j = Len(Events(file.chunks[chunk.no])) + 1
                      /\ IsEmpty(chunk.data) /\ chunk.data.lo = ChunkSpan(chunk.no).hi
        /\ (call = "Smf::read" /\ pc = "done") =>
               /\ ret.kind = "Ok"
               /\ Len(ret.val.tracks) = file.declared
               /\ \A i \in 1..file.declared :
                      Len(ret.val.tracks[i].events) = Len(Events(file.chunks[i]))

C5_Witness ==
    /\ call = "Smf::read" /\ pc = "done"
    /\ file.kind = "exact" /\ file.chunks = <<"voice", "data">>
    /\ ret.kind = "Ok"
    /\ Len(ret.val.tracks) = 2
    /\ Len(ret.val.tracks[2].events) = Len(DataEvents)

(***************************************************************************)
(* C6: on a well-formed file without its last byte the decode, stopped at  *)
(* its first error, ends with an error of kind Fatal or Invalid: it never  *)
(* reports success, never panics, and no view reaches past the buffer end. *)
(***************************************************************************)
C6_TruncatedFails ==
    (file.kind = "cut" /\ WellFormed(file)) =>
        /\ firstErr.kind \in {"None", "Fatal", "Invalid"}
        /\ pc = "panicked" => firstErr.kind \in {"Fatal", "Invalid"}
        /\ \A i \in 1..Len(calls) :
               calls[i].item.kind = "None" => firstErr.kind \in {"Fatal", "Invalid"}
        /\ (call = "Smf::read" /\ pc = "done") => ret.kind \in {"Fatal", "Invalid"}
        /\ (call = "SmfReader" /\ pc = "done") => ret.kind \in {"Fatal", "Invalid"}
        /\ InBounds(reader.data) /\ InBounds(iter.data) /\ InBounds(chunk.data)
        /\ \A i \in 1..Len(calls) :
               calls[i].item.kind = "Ok" => InBounds(calls[i].item.val.data)

C6_Witness ==
    /\ call = "Smf::read" /\ pc = "done"
    /\ file.kind = "cut" /\ file.chunks = <<"voice", "meta">>
    /\ ret.kind = "Fatal"
    /\ ret.context = "read_track_chunk: track must contain event bytes"

(***************************************************************************)
(* C11: no local recovery. Once next on the event iterator, or on the      *)
(* track chunk iterator, has returned an error, no later call of next on   *)
(* that same iterator yields an Ok item: the iterators never skip the      *)
(* offending bytes and resume decoding behind them.                        *)
(***************************************************************************)
IsError(item) == item.kind \in {"Fatal", "Invalid"}

C11_NoLocalRecovery ==
    /\ \A i \in 1..Len(evs) : \A j \in (i + 1)..Len(evs) :
           IsError(evs[i].item) => evs[j].item.kind # "Ok"
    /\ \A i \in 1..Len(calls) : \A j \in (i + 1)..Len(calls) :
           IsError(calls[i].item) => calls[j].item.kind # "Ok"

(***************************************************************************)
(* C12: whatever calls of next are made on the event iterator of a chunk   *)
(* span of declared length L, errors included, the bytes consumed never    *)
(* exceed L, the iterator's view and every payload view it returns lie     *)
(* inside the span (no byte of the following chunk is read), and a length  *)
(* prefix larger than what is left of the span yields Fatal.               *)
(***************************************************************************)
Inside(s, span) == span.lo <= s.lo /\ s.lo <= s.hi /\ s.hi <= span.hi

\* the span the track chunk iterator yielded for the chunk held
HeldSpan == calls[chunk.no].item.val.data

\* meta types whose length byte is a fixed literal, not a length prefix
FixedMetaTypes == {0, 32, 47, 81, 84, 88, 89}

\* the views an Ok event carries
PayloadViews(ev) ==
    LET e == ev.kind.event
    IN  (IF "data" \in DOMAIN e THEN {e.data} ELSE {})
        \cup (IF "text" \in DOMAIN e THEN {e.text} ELSE {})

\* at b: a one-byte time, a sysex or length-prefixed meta type, and a
\* one-byte length larger than the bytes left behind it
LengthOverrun(b) ==
    LET p == IF SliceLen(b) >= 2 /\ input[b.lo + 2] = 255 THEN b.lo + 3 ELSE b.lo + 2
    IN  /\ SliceLen(b) >= 2
        /\ ~HighBit(input[b.lo + 1])
        /\ input[b.lo + 2] \in {240, 247, 255}
        /\ input[b.lo + 2] = 255 =>
               (p <= b.hi /\ input[p] \notin FixedMetaTypes)
        /\ p + 1 <= b.hi
        /\ ~HighBit(input[p + 1])
        /\ input[p + 1] > b.hi - (p + 1)

C12_InsideSpan ==
    chunk.no > 0 =>
        /\ Inside(chunk.data, HeldSpan)
        /\ chunk.data.lo - HeldSpan.lo <= SliceLen(HeldSpan)
        /\ \A j \in 1..Len(evs) :
               /\ Inside(evs[j].before, HeldSpan)
               /\ evs[j].before.lo <= ChunkAfter(j).lo
               /\ evs[j].item.kind = "Ok" =>
                      \A v \in PayloadViews(evs[j].item.val) :
                          Inside(v, Slice(evs[j].before.lo, ChunkAfter(j).lo))
               /\ LengthOverrun(evs[j].before) => evs[j].item.kind = "Fatal"

\* a length prefix runs past the span while another chunk follows it
C12_Witness ==
    /\ file.kind = "exact" /\ file.chunks = <<"overrun", "data">>
    /\ chunk.no = 1 /\ Len(evs) = 1
    /\ LengthOverrun(evs[1].before)
    /\ evs[1].item.kind = "Fatal"
    /\ chunk.data.hi < Len(input)

(***************************************************************************)
(* C13: read_header of lib.rs accepts exactly the headers that             *)
(* read_header_chunk accepts and returns the same format, track count and  *)
(* division, every field read big-endian; the header literal 'MThd',       *)
(* 0,0,0,6, 0,1, 0,3, 4,0 yields MultiTrack, 3 tracks, division 1024.      *)
(***************************************************************************)
C13_SameHeaders ==
    Returned("read_header") =>
        LET e == read_header_chunk(Slice(0, Len(input)))
        IN  /\ ret.ok = e.ok
            /\ ret.ok => ret.val = e.val
            /\ input = HeaderLiteral =>
                   /\ ret.ok
                   /\ ret.val = [format |-> "MultiTrack", tracks |-> 3, division |-> 1024]

(***************************************************************************)
(* C14: whatever the buffer and the declared track count N, the track      *)
(* chunk iterator reaches the end of iteration: one of the first N+2 calls *)
(* of next returns None, also when the countdown is zero while bytes are   *)
(* left (the "undread data left" error is reported, then iteration ends).  *)
(***************************************************************************)
C14_IterationEnds ==
    Len(calls) >= file.declared + 2 =>
        \E i \in 1..(file.declared + 2) : calls[i].item.kind = "None"

(***************************************************************************)
(* C15: every MidiEvent that read_event returns has its channel in 0..15   *)
(* and all of its data fields (key, velocity, controller number and value, *)
(* program, pressure, pitch-bend lsb and msb, the MonoModeOn count) in     *)
(* 0..0x7F: no decoded channel message carries a data byte with the high   *)
(* bit set.                                                                *)
(***************************************************************************)
C15_MidiFieldsSevenBit ==
    (Returned("read_event") /\ ret.ok /\ ret.val.kind.tag = "Midi") =>
        LET m == ret.val.kind.event
        IN  /\ m.channel \in 0..15
            /\ \A f \in DOMAIN m.kind \ {"midi", "action"} : m.kind[f] \in 0..127

====
